---- MODULE Spec2Model ----
(***************************************************************************)
(* currently_playing: the MediaListener aggregator (src/src/listener.rs),  *)
(* the MPRIS poller backend (src/src/platform/linux.rs) and the websocket  *)
(* push backend (src/src/ws.rs), with the data model of src/src/lib.rs.    *)
(***************************************************************************)
EXTENDS Integers, Sequences, FiniteSets, TLC

\* ------------------------------------------------------------------ bounds

\* Largest elapsed position (and ProgressChanged payload) the environment reports.
MaxElapsed == 1

\* update_rate values are taken from 0 .. MaxRate and 1000 .. 1000 + MaxRate.
MaxRate == 2

\* update_rate of MediaSourceConfig::default().
DefaultUpdateRate == 30

\* ------------------------------------------------------------- data model

\* Option::None of every optional field.
None == "None"

MediaState == {"Playing", "Paused", "Stopped"}

MediaSourcePriority == {"Websocket", "System"}

\* MediaMetadata::default(): derive(Default), MediaState's #[default] is Stopped.
DefaultMetadata ==
  [uid |-> None, uri |-> None, state |-> "Stopped", duration |-> 0, elapsed |-> 0,
   title |-> "", album |-> None, artists |-> <<>>, cover_url |-> None,
   cover |-> None, background_url |-> None, background |-> None]

\* The tracks the environment (a player on the bus, a push client) can report.
Tracks ==
  { [uid |-> "/track/x", uri |-> "file:x", duration |-> 300, title |-> "X",
     album |-> "AX", artists |-> <<"ax">>, cover_url |-> None],
    [uid |-> "/track/y", uri |-> "file:y", duration |-> 200, title |-> "Y",
     album |-> None, artists |-> <<"ay">>, cover_url |-> "http://y"] }

\* new_metadata as background_task builds it from the player's answers:
\* cover, background_url and background are always None.
NewMetadata(t, st, el) ==
  [uid |-> t.uid, uri |-> t.uri, state |-> st, duration |-> t.duration,
   elapsed |-> el, title |-> t.title, album |-> t.album, artists |-> t.artists,
   cover_url |-> t.cover_url, cover |-> None, background_url |-> None,
   background |-> None]

\* What one Active iteration can read from the platform.
PlatformReads ==
  { NewMetadata(t, st, el) : t \in Tracks, st \in MediaState, el \in 1..MaxElapsed }

\* Mutant of is_different: the uid comparison is missing.
is_different_NoUid(self, other) ==
  LET uri     == self.uri # None /\ self.uri # other.uri
      title   == self.title # other.title
      artists == self.artists # other.artists
  IN  uri \/ (title /\ artists)

\* MediaMetadata::is_different
is_different(self, other) ==
  LET uid     == self.uid # None /\ self.uid # other.uid
      uri     == self.uri # None /\ self.uri # other.uri
      title   == self.title # other.title
      artists == self.artists # other.artists
  IN  uid \/ uri \/ (title /\ artists)

\* MediaEvent, one record shape for the three variants (unused fields defaulted).
NoEvent == [type |-> "None", meta |-> DefaultMetadata, state |-> "Stopped", elapsed |-> 0]

MediaChanged(m) ==
  [type |-> "MediaChanged", meta |-> m, state |-> "Stopped", elapsed |-> 0]

StateChanged(s) ==
  [type |-> "StateChanged", meta |-> DefaultMetadata, state |-> s, elapsed |-> 0]

ProgressChanged(d) ==
  [type |-> "ProgressChanged", meta |-> DefaultMetadata, state |-> "Stopped", elapsed |-> d]

\* Mutant of DiffEvent: the state comparison is made before is_different.
DiffEvent_StateFirst(metadata, new_metadata) ==
  IF metadata.state # new_metadata.state THEN StateChanged(new_metadata.state)
  ELSE IF is_different(metadata, new_metadata) THEN MediaChanged(new_metadata)
  ELSE IF new_metadata.state = "Playing" THEN ProgressChanged(new_metadata.elapsed)
  ELSE NoEvent

\* Mutant of DiffEvent: the last arm does not look at the state, every refresh
\* that changed nothing reports the progress.
DiffEvent_ProgressAlways(metadata, new_metadata) ==
  IF is_different(metadata, new_metadata) THEN MediaChanged(new_metadata)
  ELSE IF metadata.state # new_metadata.state THEN StateChanged(new_metadata.state)
  ELSE ProgressChanged(new_metadata.elapsed)

\* The Event Differ of the native poller: the match () of background_task.
DiffEvent(metadata, new_metadata) ==
  IF is_different(metadata, new_metadata) THEN MediaChanged(new_metadata)
  ELSE IF metadata.state # new_metadata.state THEN StateChanged(new_metadata.state)
  ELSE IF new_metadata.state = "Playing" THEN ProgressChanged(new_metadata.elapsed)
  ELSE NoEvent

\* The events a push client can serialise into a text frame.
ClientEvents ==
  { MediaChanged(m) : m \in PlatformReads }
    \cup { StateChanged(s) : s \in MediaState }
    \cup { ProgressChanged(d) : d \in 1..MaxElapsed }

\* What connection.next() can yield: a text frame holding an event, a text frame
\* that does not parse, a non-text frame, a transport error, or the end of the stream.
FrameKinds == {"event", "malformed", "unsupported", "error", "closed"}

\* Mutant of ApplyEvent: ProgressChanged is taken as a fraction of the duration.
ApplyEvent_Fraction(metadata, event) ==
  IF event.type = "MediaChanged" THEN event.meta
  ELSE IF event.type = "StateChanged" THEN [metadata EXCEPT !.state = event.state]
  ELSE [metadata EXCEPT !.elapsed = metadata.duration * event.elapsed]

\* The push server's match on a parsed event: how it is applied to the store.
ApplyEvent(metadata, event) ==
  IF event.type = "MediaChanged" THEN event.meta
  ELSE IF event.type = "StateChanged" THEN [metadata EXCEPT !.state = event.state]
  ELSE [metadata EXCEPT !.elapsed = event.elapsed]

\* Option::or
Or(a, b) == IF a # None THEN a ELSE b

\* Mutant of merge: elapsed falls back when the duration is zero.
merge_ElapsedByDuration(self, fallback) ==
  [uid            |-> Or(self.uid, fallback.uid),
   uri            |-> Or(self.uri, fallback.uri),
   state          |-> self.state,
   duration       |-> IF self.duration = 0 THEN fallback.duration ELSE self.duration,
   elapsed        |-> IF self.duration = 0 THEN fallback.elapsed ELSE self.elapsed,
   title          |-> IF self.title = "" THEN fallback.title ELSE self.title,
   album          |-> Or(self.album, fallback.album),
   artists        |-> IF self.artists = <<>> THEN fallback.artists ELSE self.artists,
   cover_url      |-> Or(self.cover_url, fallback.cover_url),
   cover          |-> Or(self.cover, fallback.cover),
   background_url |-> Or(self.background_url, fallback.background_url),
   background     |-> Or(self.background, fallback.background)]

\* MediaMetadata::merge
merge(self, fallback) ==
  [uid            |-> Or(self.uid, fallback.uid),
   uri            |-> Or(self.uri, fallback.uri),
   state          |-> self.state,
   duration       |-> IF self.duration = 0 THEN fallback.duration ELSE self.duration,
   elapsed        |-> IF self.elapsed = 0 THEN fallback.elapsed ELSE self.elapsed,
   title          |-> IF self.title = "" THEN fallback.title ELSE self.title,
   album          |-> Or(self.album, fallback.album),
   artists        |-> IF self.artists = <<>> THEN fallback.artists ELSE self.artists,
   cover_url      |-> Or(self.cover_url, fallback.cover_url),
   cover          |-> Or(self.cover, fallback.cover),
   background_url |-> Or(self.background_url, fallback.background_url),
   background     |-> Or(self.background, fallback.background)]

\* The fields of MediaMetadata, and those merge can take from the fallback.
Fields == DOMAIN DefaultMetadata

MergeFields == Fields \ {"state"}

\* Two values with every field set, no field of one equal to that of the other.
FullPrimary ==
  [uid |-> "p:uid", uri |-> "p:uri", state |-> "Playing", duration |-> 100,
   elapsed |-> 10, title |-> "P", album |-> "p:album", artists |-> <<"p">>,
   cover_url |-> "p:cover_url", cover |-> "p:cover",
   background_url |-> "p:background_url", background |-> "p:background"]

FullFallback ==
  [uid |-> "f:uid", uri |-> "f:uri", state |-> "Paused", duration |-> 200,
   elapsed |-> 20, title |-> "F", album |-> "f:album", artists |-> <<"f">>,
   cover_url |-> "f:cover_url", cover |-> "f:cover",
   background_url |-> "f:background_url", background |-> "f:background"]

\* The value full with state st, reduced to the fields of set, the others at
\* their defaults (None, zero, empty).
Masked(full, set, st) ==
  [f \in Fields |-> IF f = "state" THEN st
                    ELSE IF f \in set THEN full[f] ELSE DefaultMetadata[f]]

\* The sets of fields a merged value has set: none, one, all but one, all.
Masks ==
  {{}} \cup {{f} : f \in MergeFields} \cup {MergeFields \ {f} : f \in MergeFields}
    \cup {MergeFields}

\* ---------------------------------------------------------- configuration

\* MediaSourceConfig, the fields the aggregator and the backends branch on.
\* update_rate is the one of MediaSourceConfig::default().
Configs ==
  [priority : MediaSourcePriority, hybrid : BOOLEAN,
   system_enabled : BOOLEAN, websocket_enabled : BOOLEAN,
   update_rate : {DefaultUpdateRate}]

NoConfig ==
  [priority |-> "Websocket", hybrid |-> FALSE,
   system_enabled |-> FALSE, websocket_enabled |-> FALSE,
   update_rate |-> DefaultUpdateRate]

\* Values of update_rate (a u64): the small ones from 0 and the ones from 1000.
Rates == (0 .. MaxRate) \cup (1000 .. 1000 + MaxRate)

\* The configurations with update_rate set by set_update_rate.
RatedConfigs ==
  [priority : MediaSourcePriority, hybrid : BOOLEAN,
   system_enabled : BOOLEAN, websocket_enabled : BOOLEAN,
   update_rate : Rates]

\* wait_ms of background_task: 1000u64.checked_div(update_rate).unwrap_or(1).
\* checked_div is None only for a zero divisor.
wait_ms(update_rate) ==
  IF update_rate = 0 THEN 1 ELSE 1000 \div update_rate

Backends == {"System", "Websocket"}

Other(b) == IF b = "System" THEN "Websocket" ELSE "System"

\* ------------------------------------------------------------------ state

VARIABLES
  cfg,           \* MediaListener.cfg, the configuration create was called with
  create,        \* the outcome of MediaListener::create
  system,        \* MediaListener.system is Some
  websocket,     \* MediaListener.websocket is Some
  last_played,   \* MediaListener.last_played
  cancel_token,  \* per backend: the AtomicBool cancel_token
  is_running,    \* MprisMediaSource.is_running
  metadata,      \* per backend: the Snapshot Store, Arc<RwLock<MediaMetadata>>
  player,        \* environment: a media player is on the session bus
  sysPc,         \* where the MPRIS poller thread is
  wsPc,          \* where the push server thread is
  callPc,        \* where the calling thread is inside MediaListener::next
  ret,           \* what the last completed call on the listener returned
  prev_idle,     \* history: when the call in ret and the call before it are both
                 \* poll() calls that read no Playing snapshot, the backend that
                 \* earlier call returned; None otherwise
  prev_timeout,  \* history: the call before the one in ret (or in progress) was a
                 \* next() that failed with Timeout
  quiet,         \* history: while the caller has been blocked in recv_timeout of the
                 \* system backend, the poller finished an iteration without an event
  guard,         \* the backend whose RwLockReadGuard, returned by poll_guarded, the
                 \* caller still holds; None if it holds no guard
  recv,          \* per backend: the thread that holds the Mutex of the Receiver
  peerPc,        \* where a second calling thread is inside MediaListener::next
  peerRet,       \* what the second thread's last completed next() returned
  cmp,           \* a pair of MediaMetadata values and what is_different says of it
  mrg,           \* a pair of MediaMetadata values and what merge makes of it
  wsEvent        \* the push server's local `event`: published, not yet stored

vars ==
  <<cfg, create, system, websocket, last_played, cancel_token, is_running, metadata,
    player, sysPc, wsPc, callPc, ret, prev_idle, prev_timeout, quiet, guard, recv,
    peerPc, peerRet, cmp, mrg, wsEvent>>

peerVars == <<recv, peerPc, peerRet>>

\* The fields of the listener that only create sets, and the guard borrowed
\* from it.
listenerVars == <<cfg, create, system, websocket, guard>>

NotCreated ==
  [status |-> "NotCalled", sys_init |-> "Ok", attempted |-> {}, failed |-> {}]

NoRet ==
  [op |-> "none", kind |-> "none", src |-> None, meta |-> DefaultMetadata,
   states |-> <<None, None>>, event |-> NoEvent, first |-> None, second |-> None,
   searching |-> FALSE]

Idle == [at |-> "idle", first |-> None]

NoPeerRet == [kind |-> "none", src |-> None, event |-> NoEvent]

\* No pair has been compared.
NoCmp ==
  [a |-> None, b |-> None, done |-> FALSE, ab |-> FALSE, ba |-> FALSE]

\* The metadata values is_different is called on: every combination of an
\* absent, an empty and two present uids, an absent and two present uris, two
\* titles and two artist lists, the other fields at their defaults.
ComparedMetadata ==
  { [DefaultMetadata EXCEPT !.uid = u, !.uri = r, !.title = t, !.artists = ar] :
      u \in {None, "", "/track/x", "/track/y"}, r \in {None, "file:x", "file:y"},
      t \in {"X", "Y"}, ar \in {<<"ax">>, <<"ay">>} }

\* No pair has been merged.
NoMrg ==
  [primary |-> None, fallback |-> None, done |-> FALSE, merged |-> None]

\* The state after start-up, before MediaListener::create is called.
InitListener ==
  /\ cfg = NoConfig
  /\ create = NotCreated
  /\ system = FALSE
  /\ websocket = FALSE
  /\ last_played = "Websocket"
  /\ guard = None
  /\ recv = [b \in Backends |-> None]
  /\ peerPc = Idle
  /\ peerRet = NoPeerRet
  /\ cancel_token = [b \in Backends |-> FALSE]
  /\ is_running = FALSE
  /\ metadata = [b \in Backends |-> DefaultMetadata]
  /\ player \in BOOLEAN
  /\ sysPc = "unspawned"
  /\ wsPc = "unspawned"
  /\ callPc = Idle
  /\ ret = NoRet
  /\ prev_idle = None
  /\ prev_timeout = FALSE
  /\ quiet = FALSE
  /\ wsEvent = NoEvent

Init == InitListener /\ cmp = NoCmp /\ mrg = NoMrg

\* is_different as a function of its two arguments: a pair is drawn at the
\* start and compared in both directions.
InitDiffer ==
  /\ InitListener
  /\ cmp \in { [NoCmp EXCEPT !.a = x, !.b = y] : x, y \in ComparedMetadata }
  /\ mrg = NoMrg

\* a.is_different(&b) and b.is_different(&a)
Compare ==
  /\ ~cmp.done
  /\ cmp' = [cmp EXCEPT !.done = TRUE,
                        !.ab = is_different(cmp.a, cmp.b),
                        !.ba = is_different(cmp.b, cmp.a)]
  /\ UNCHANGED <<listenerVars, last_played, cancel_token, is_running, metadata,
                 player, sysPc, wsPc, callPc, ret, prev_idle, prev_timeout, quiet,
                 peerVars, mrg, wsEvent>>

\* merge as a function of its two arguments: a pair is drawn at the start.
InitMerge ==
  /\ InitListener
  /\ cmp = NoCmp
  /\ mrg \in { [NoMrg EXCEPT !.primary = Masked(FullPrimary, p, ps),
                              !.fallback = Masked(FullFallback, f, fs)] :
                 p \in Masks, f \in Masks, ps \in MediaState, fs \in MediaState }

\* primary.merge(fallback)
Merge ==
  /\ ~mrg.done
  /\ mrg' = [mrg EXCEPT !.done = TRUE, !.merged = merge(mrg.primary, mrg.fallback)]
  /\ UNCHANGED <<listenerVars, last_played, cancel_token, is_running, metadata,
                 player, sysPc, wsPc, callPc, ret, prev_idle, prev_timeout, quiet,
                 peerVars, cmp, wsEvent>>

\* ------------------------------------------------- MediaListener::create

\* What creating the platform backend can answer once it is enabled: the MPRIS
\* backend always succeeds; a platform whose session manager cannot be reached
\* answers with a platform error.
SystemInitOutcomes == {"Ok", "Platform"}

\* MprisMediaSource::create: NotEnabled unless system_enabled, else the poller
\* thread is spawned and the handle returned (init is the platform's answer).
SystemCreate(c, init) == IF ~c.system_enabled THEN "NotEnabled" ELSE init

\* WebsocketMediaSourceBackground::create: NotEnabled unless websocket_enabled,
\* else the server thread is spawned and the handle returned.
WebsocketCreate(c) == IF ~c.websocket_enabled THEN "NotEnabled" ELSE "Ok"

\* Mutant of NoneEnabled: the negations are lost.
NoneEnabled_NoNegation(c) == c.system_enabled /\ c.websocket_enabled

\* The guard of MediaListener::create.
NoneEnabled(c) == ~c.system_enabled /\ ~c.websocket_enabled

\* The scrutinee of the match that decides whether the websocket backend is created.
WebsocketWanted(c) == c.system_enabled

\* MediaListener::create, as a record of everything it does:
\* status, which backends' create was called, which failed, which handles the
\* listener holds, which threads were spawned, and whether an already created
\* system handle was dropped by an early return.
CreateOutcome(c, init) ==
  LET base == [status |-> "Ok", attempted |-> {}, failed |-> {}, system |-> FALSE,
               websocket |-> FALSE, sys_spawned |-> FALSE, ws_spawned |-> FALSE,
               sys_dropped |-> FALSE]
      sysRes == SystemCreate(c, init)
      wsRes  == WebsocketCreate(c)
  IN
  IF NoneEnabled(c) THEN [base EXCEPT !.status = "NotEnabled"]
  ELSE IF c.system_enabled /\ sysRes # "Ok"
    THEN [base EXCEPT !.status = sysRes, !.attempted = {"System"}, !.failed = {"System"}]
  ELSE
    LET s == IF c.system_enabled
               THEN [base EXCEPT !.attempted = {"System"}, !.system = TRUE,
                                 !.sys_spawned = TRUE]
               ELSE base
    IN IF ~WebsocketWanted(c) THEN s
       ELSE IF wsRes # "Ok"
         THEN [s EXCEPT !.status = wsRes, !.attempted = @ \cup {"Websocket"},
                        !.failed = {"Websocket"}, !.system = FALSE,
                        !.sys_dropped = s.system]
       ELSE [s EXCEPT !.attempted = @ \cup {"Websocket"}, !.websocket = TRUE,
                      !.ws_spawned = TRUE]

\* Mutant of InitialLastPlayed: last_played starts as Websocket whatever the
\* priority.
InitialLastPlayed_Websocket(priority) == "Websocket"

\* The match on cfg.priority that gives last_played its first value.
InitialLastPlayed(priority) == priority

CreateWith(c) ==
  /\ create.status = "NotCalled"
  /\ \E init \in SystemInitOutcomes :
       LET o == CreateOutcome(c, init) IN
       /\ cfg' = c
       /\ create' = [status |-> o.status, sys_init |-> init,
                     attempted |-> o.attempted, failed |-> o.failed]
       /\ system' = o.system
       /\ websocket' = o.websocket
       /\ last_played' = IF o.status = "Ok" THEN InitialLastPlayed(c.priority)
                         ELSE last_played
       /\ sysPc' = IF o.sys_spawned THEN "discover" ELSE sysPc
       /\ wsPc' = IF o.ws_spawned THEN "top" ELSE wsPc
       /\ cancel_token' = [cancel_token EXCEPT !["System"] = o.sys_dropped]
  /\ UNCHANGED <<is_running, metadata, player, callPc, ret, prev_idle,
                 prev_timeout, quiet, guard, peerVars, cmp, mrg, wsEvent>>

\* MediaListener::create with the default update_rate.
Create == \E c \in Configs : CreateWith(c)

\* MediaListener::create after set_update_rate.
CreateRated == \E c \in RatedConfigs : CreateWith(c)

\* ------------------------------------------------------- backend handles

\* Mutant of BackendPoll: the is_closed check is missing.
BackendPoll_NoClosedCheck(b) == [kind |-> "Ok", meta |-> metadata[b]]

\* is_closed() of either backend: the cancel flag.
is_closed(b) == cancel_token[b]

\* poll_guarded() of either backend (poll() is its clone): Closed once the flag
\* is set, else the Snapshot Store.
BackendPoll(b) ==
  IF is_closed(b) THEN [kind |-> "Closed", meta |-> DefaultMetadata]
  ELSE [kind |-> "Ok", meta |-> metadata[b]]

\* MediaListener::is_closed: is_closed() of each backend the listener holds,
\* false (unwrap_or_default) for one it does not hold, joined by &&.
MediaListener_is_closed ==
  LET sys == IF system THEN is_closed("System") ELSE FALSE
      ws  == IF websocket THEN is_closed("Websocket") ELSE FALSE
  IN sys /\ ws

\* Drop for MprisMediaSource: the only store to a cancel_token. The handle's
\* methods take &self and read the flag, so they are modelled for both values.
Drop ==
  /\ system
  /\ ~cancel_token["System"]
  /\ cancel_token' = [cancel_token EXCEPT !["System"] = TRUE]
  /\ UNCHANGED <<listenerVars, cmp, mrg, wsEvent, last_played, is_running, metadata, player,
                 sysPc, wsPc, callPc, ret, prev_idle, prev_timeout, quiet, peerVars>>

\* --------------------------------------------------- MediaListener::poll

\* Mutant of PollArbitrate: the playback states are ignored, the priority
\* backend always wins.
PollArbitrate_PriorityOnly(priority, sys, ws, lp) == [src |-> priority, lp |-> priority]

\* Mutant of PollArbitrate: with no Playing source the winner is re-derived from
\* the priority instead of last_played.
PollArbitrate_IdlePriority(priority, sys, ws, lp) ==
  IF sys = "Playing" /\ ws = "Playing" THEN [src |-> priority, lp |-> priority]
  ELSE IF sys = "Playing" THEN [src |-> "System", lp |-> "System"]
  ELSE IF ws = "Playing" THEN [src |-> "Websocket", lp |-> "Websocket"]
  ELSE [src |-> priority, lp |-> lp]

\* Mutant of PollArbitrate: two Playing sources resolve to System under either
\* priority.
PollArbitrate_BothPlayingSystem(priority, sys, ws, lp) ==
  IF sys = "Playing" THEN [src |-> "System", lp |-> "System"]
  ELSE IF ws = "Playing" THEN [src |-> "Websocket", lp |-> "Websocket"]
  ELSE [src |-> lp, lp |-> lp]

\* The inner match of poll() on (system.state, websocket.state): the backend
\* whose snapshot is returned and the value last_played is left with.
PollArbitrate(priority, sys, ws, lp) ==
  IF priority = "System" THEN
    IF sys = "Playing" /\ ws = "Playing" THEN [src |-> "System", lp |-> "System"]
    ELSE IF sys # "Playing" /\ ws = "Playing" THEN [src |-> "Websocket", lp |-> "Websocket"]
    ELSE IF sys = "Playing" /\ ws # "Playing" THEN [src |-> "System", lp |-> "System"]
    ELSE [src |-> lp, lp |-> lp]
  ELSE
    IF sys = "Playing" /\ ws = "Playing" THEN [src |-> "Websocket", lp |-> "Websocket"]
    ELSE IF sys = "Playing" /\ ws # "Playing" THEN [src |-> "System", lp |-> "System"]
    ELSE IF sys # "Playing" /\ ws = "Playing" THEN [src |-> "Websocket", lp |-> "Websocket"]
    ELSE [src |-> lp, lp |-> lp]

\* The inner match of poll_guarded().
PollGuardedArbitrate(priority, sys, ws, lp) ==
  IF priority = "System" THEN
    IF sys = "Playing" /\ ws = "Playing" THEN [src |-> "System", lp |-> "System"]
    ELSE IF sys # "Playing" /\ ws = "Playing" THEN [src |-> "Websocket", lp |-> "Websocket"]
    ELSE IF sys = "Playing" /\ ws # "Playing" THEN [src |-> "System", lp |-> "System"]
    ELSE [src |-> lp, lp |-> lp]
  ELSE
    IF sys = "Playing" /\ ws = "Playing" THEN [src |-> "System", lp |-> "System"]
    ELSE IF sys = "Playing" /\ ws # "Playing" THEN [src |-> "System", lp |-> "System"]
    ELSE IF sys # "Playing" /\ ws = "Playing" THEN [src |-> "Websocket", lp |-> "Websocket"]
    ELSE [src |-> lp, lp |-> lp]

\* The inner match of the method op.
Arbitrate(op, priority, sys, ws, lp) ==
  IF op = "poll" THEN PollArbitrate(priority, sys, ws, lp)
  ELSE PollGuardedArbitrate(priority, sys, ws, lp)

\* The poller holds no player: discovery, the backoff after an Err, or the
\* renewed find_active after the held player went away.
Searching == sysPc \in {"discover", "backoff", "refind"}

\* The poller holds no running player: Searching, or the player it just found
\* is gone again and the loop sleeps 1000 ms before its next pass.
Retrying == Searching \/ sysPc \in {"recheck", "inner_sleep"}

\* The outer match of poll() / poll_guarded() on (priority, system, websocket),
\* the same in both methods. The result: what is returned and last_played after.
PollOutcome(op) ==
  LET r == [NoRet EXCEPT !.op = op, !.searching = (Retrying /\ ~player)]
      s == BackendPoll("System")
      w == BackendPoll("Websocket")
  IN
  IF system /\ websocket THEN
    IF s.kind # "Ok" THEN [ret |-> [r EXCEPT !.kind = s.kind, !.src = "System"],
                           lp |-> last_played]
    ELSE IF w.kind # "Ok" THEN [ret |-> [r EXCEPT !.kind = w.kind, !.src = "Websocket"],
                                lp |-> last_played]
    ELSE LET a == Arbitrate(op, cfg.priority, s.meta.state, w.meta.state, last_played)
         IN [ret |-> [r EXCEPT !.kind = "Ok", !.src = a.src,
                               !.meta = IF a.src = "System" THEN s.meta ELSE w.meta,
                               !.states = <<s.meta.state, w.meta.state>>],
             lp |-> a.lp]
  ELSE IF system THEN
    [ret |-> [r EXCEPT !.kind = s.kind, !.src = "System", !.meta = s.meta],
     lp |-> last_played]
  ELSE IF websocket THEN
    [ret |-> [r EXCEPT !.kind = w.kind, !.src = "Websocket", !.meta = w.meta],
     lp |-> last_played]
  ELSE [ret |-> [r EXCEPT !.kind = "Panic"], lp |-> last_played]   \* unreachable!()

\* The call read two snapshots of which none is Playing.
IdleRet(r) ==
  r.kind = "Ok" /\ r.states[1] \in {"Paused", "Stopped"} /\ r.states[2] \in {"Paused", "Stopped"}

\* What prev_idle becomes when poll() returns r: the call now in ret precedes it.
PrecedingIdle(r) ==
  IF IdleRet(r) /\ ret.op = "poll" /\ IdleRet(ret) THEN ret.src ELSE None

\* What prev_timeout becomes when a call begins: the call now in ret precedes it.
PrecedingTimeout == ret.op = "next" /\ ret.kind = "Timeout"

\* MediaListener::poll
Poll ==
  /\ create.status = "Ok"
  /\ callPc.at = "idle"
  /\ LET o == PollOutcome("poll") IN
       /\ ret' = o.ret
       /\ last_played' = o.lp
       /\ prev_idle' = PrecedingIdle(o.ret)
       /\ prev_timeout' = PrecedingTimeout
  /\ UNCHANGED <<listenerVars, cmp, mrg, wsEvent, cancel_token, is_running, metadata, player,
                 sysPc, wsPc, callPc, quiet, peerVars>>

\* MediaListener::poll_guarded, and what the caller does with the guard it
\* returns: keeps it, or drops it when the statement of the call ends. (The
\* guard of the backend not selected is dropped inside the call.)
PollGuardedThen(keep) ==
  /\ create.status = "Ok"
  /\ callPc.at = "idle"
  /\ LET o == PollOutcome("poll_guarded") IN
       /\ ret' = o.ret
       /\ last_played' = o.lp
       /\ prev_idle' = None
       /\ prev_timeout' = PrecedingTimeout
       /\ guard' = IF keep /\ o.ret.kind = "Ok" THEN o.ret.src ELSE guard
  /\ UNCHANGED <<cfg, create, system, websocket, cmp, mrg, wsEvent, cancel_token, is_running,
                 metadata, player, sysPc, wsPc, callPc, quiet, peerVars>>

\* poll_guarded by a caller that reads the snapshot and lets the guard go.
PollGuarded == PollGuardedThen(FALSE)

\* poll_guarded by a caller that holds no guard and keeps the one returned.
PollGuardedKept == guard = None /\ PollGuardedThen(TRUE)

\* A backend the listener holds, not closed, has a Playing snapshot: a poll
\* made now reads a Playing snapshot.
ObservesPlaying ==
  \/ system /\ ~is_closed("System") /\ metadata["System"].state = "Playing"
  \/ websocket /\ ~is_closed("Websocket") /\ metadata["Websocket"].state = "Playing"

\* poll() and poll_guarded() called while no snapshot they read is Playing.
PollIdle == ~ObservesPlaying /\ Poll

PollGuardedIdle == ~ObservesPlaying /\ PollGuarded

\* The caller drops the RwLockReadGuard it kept.
DropGuard ==
  /\ guard # None
  /\ guard' = None
  /\ UNCHANGED <<cfg, create, system, websocket, cmp, mrg, wsEvent, last_played, cancel_token,
                 is_running, metadata, player, sysPc, wsPc, callPc, ret, prev_idle,
                 prev_timeout, quiet, peerVars>>

\* --------------------------------------------------- MediaListener::next

callerVars == <<callPc, ret, prev_idle, prev_timeout, quiet, recv, peerPc, peerRet>>

\* Mutant of NextOrder: the system backend is asked first under either priority.
NextOrder_SystemFirst ==
  IF system /\ websocket THEN <<"System", "Websocket">>
  ELSE IF system THEN <<"System">>
  ELSE IF websocket THEN <<"Websocket">>
  ELSE <<>>

\* The backends next() consults, in order: the outer match on
\* (priority, system, websocket) and the or_else of its two-backend arms.
NextOrder ==
  IF system /\ websocket THEN
    IF cfg.priority = "System" THEN <<"System", "Websocket">> ELSE <<"Websocket", "System">>
  ELSE IF system THEN <<"System">>
  ELSE IF websocket THEN <<"Websocket">>
  ELSE <<>>

\* The backend whose next() a thread at pc is inside, past the is_closed check.
At(pc) ==
  IF pc.at = "first" THEN NextOrder[1]
  ELSE IF pc.at = "second" THEN NextOrder[2]
  ELSE None

\* The backend whose recv_timeout the calling thread is blocked in: it holds
\* the lock of that backend's Receiver.
WaitingOn ==
  IF At(callPc) = None THEN None
  ELSE IF recv[At(callPc)] = "caller" THEN At(callPc) ELSE None

\* The same of the second thread.
PeerWaitingOn ==
  IF At(peerPc) = None THEN None
  ELSE IF recv[At(peerPc)] = "peer" THEN At(peerPc) ELSE None

\* The MutexGuard of thread t is dropped when its backend next() returns.
ReleasedBy(t) == [b \in Backends |-> IF recv[b] = t THEN None ELSE recv[b]]

\* Thread t enters next() of backend b: recv.lock() succeeds at once if the
\* Mutex is free, else the thread waits for it.
EnteredBy(t, b) == [ReleasedBy(t) EXCEPT ![b] = IF @ = None THEN t ELSE @]

\* next() returns: the call is over, with the outcome of each backend consulted.
NextReturns(kind, src, event, first, second) ==
  /\ ret' = [NoRet EXCEPT !.op = "next", !.kind = kind, !.src = src, !.event = event,
                          !.first = first, !.second = second]
  /\ callPc' = Idle
  /\ prev_idle' = None
  /\ quiet' = FALSE
  /\ recv' = ReleasedBy("caller")

\* The calling thread blocks in recv_timeout of a backend; nothing has returned yet.
NextBlocks(at, first) ==
  /\ callPc' = [at |-> at, first |-> first]
  /\ ret' = NoRet
  /\ prev_idle' = None
  /\ quiet' = FALSE
  /\ recv' = EnteredBy("caller", IF at = "first" THEN NextOrder[1] ELSE NextOrder[2])

\* The first backend's next() failed with err: or_else calls the other backend's
\* next(), which fails at once with Closed or blocks in recv_timeout.
FallThrough(err) ==
  IF Len(NextOrder) = 1 THEN NextReturns(err, NextOrder[1], NoEvent, err, "NotCalled")
  ELSE IF is_closed(NextOrder[2])
    THEN NextReturns("Closed", NextOrder[2], NoEvent, err, "Closed")
  ELSE NextBlocks("second", err)

\* next() is called: the first backend's is_closed check, then its recv_timeout.
NextBegin ==
  /\ create.status = "Ok"
  /\ callPc.at = "idle"
  /\ IF NextOrder = <<>> THEN NextReturns("Panic", None, NoEvent, None, None)
     ELSE IF is_closed(NextOrder[1]) THEN FallThrough("Closed")
     ELSE NextBlocks("first", None)
  /\ prev_timeout' = PrecedingTimeout
  /\ UNCHANGED <<listenerVars, cmp, mrg, wsEvent, last_played, cancel_token, is_running, metadata,
                 player, sysPc, wsPc, peerPc, peerRet>>

\* Mutant of NextTimeout: a timed-out wait marks the backend as closed.
NextTimeout_Closes ==
  /\ WaitingOn # None
  /\ IF callPc.at = "first" THEN FallThrough("Timeout")
     ELSE NextReturns("Timeout", WaitingOn, NoEvent, callPc.first, "Timeout")
  /\ cancel_token' = [cancel_token EXCEPT ![WaitingOn] = TRUE]
  /\ UNCHANGED prev_timeout
  /\ UNCHANGED <<listenerVars, cmp, mrg, wsEvent, last_played, is_running, metadata,
                 player, sysPc, wsPc, peerPc, peerRet>>

\* recv_timeout gives up: Timeout.
NextTimeout ==
  /\ WaitingOn # None
  /\ IF callPc.at = "first" THEN FallThrough("Timeout")
     ELSE NextReturns("Timeout", WaitingOn, NoEvent, callPc.first, "Timeout")
  /\ UNCHANGED prev_timeout
  /\ UNCHANGED <<listenerVars, cmp, mrg, wsEvent, last_played, cancel_token, is_running, metadata,
                 player, sysPc, wsPc, peerPc, peerRet>>

\* The Mutex of the Receiver the calling thread waits for is free: lock() returns
\* and recv_timeout begins.
CallerLocks ==
  /\ At(callPc) # None
  /\ recv[At(callPc)] = None
  /\ recv' = [recv EXCEPT ![At(callPc)] = "caller"]
  /\ UNCHANGED <<listenerVars, cmp, mrg, wsEvent, last_played, cancel_token, is_running, metadata,
                 player, sysPc, wsPc, callPc, ret, prev_idle, prev_timeout, quiet,
                 peerPc, peerRet>>

\* The second thread's next() returns.
PeerReturns(kind, src, event) ==
  /\ peerRet' = [kind |-> kind, src |-> src, event |-> event]
  /\ peerPc' = Idle
  /\ recv' = ReleasedBy("peer")

\* The second thread is inside a backend's next(), nothing has returned yet.
PeerBlocks(at, first) ==
  /\ peerPc' = [at |-> at, first |-> first]
  /\ peerRet' = NoPeerRet
  /\ recv' = EnteredBy("peer", IF at = "first" THEN NextOrder[1] ELSE NextOrder[2])

PeerFallThrough(err) ==
  IF Len(NextOrder) = 1 THEN PeerReturns(err, NextOrder[1], NoEvent)
  ELSE IF is_closed(NextOrder[2]) THEN PeerReturns("Closed", NextOrder[2], NoEvent)
  ELSE PeerBlocks("second", err)

\* MediaListener::next called from a second thread, on a listener that has a
\* backend.
PeerBegin ==
  /\ create.status = "Ok"
  /\ peerPc.at = "idle"
  /\ NextOrder # <<>>
  /\ IF is_closed(NextOrder[1]) THEN PeerFallThrough("Closed")
     ELSE PeerBlocks("first", None)
  /\ UNCHANGED <<listenerVars, cmp, mrg, wsEvent, last_played, cancel_token, is_running, metadata,
                 player, sysPc, wsPc, callPc, ret, prev_idle, prev_timeout, quiet>>

\* The second thread's recv_timeout gives up.
PeerTimeout ==
  /\ PeerWaitingOn # None
  /\ IF peerPc.at = "first" THEN PeerFallThrough("Timeout")
     ELSE PeerReturns("Timeout", PeerWaitingOn, NoEvent)
  /\ UNCHANGED <<listenerVars, cmp, mrg, wsEvent, last_played, cancel_token, is_running, metadata,
                 player, sysPc, wsPc, callPc, ret, prev_idle, prev_timeout, quiet>>

\* The second thread gets the Mutex it waits for.
PeerLocks ==
  /\ At(peerPc) # None
  /\ recv[At(peerPc)] = None
  /\ recv' = [recv EXCEPT ![At(peerPc)] = "peer"]
  /\ UNCHANGED <<listenerVars, cmp, mrg, wsEvent, last_played, cancel_token, is_running, metadata,
                 player, sysPc, wsPc, callPc, ret, prev_idle, prev_timeout, quiet,
                 peerPc, peerRet>>

\* Mutant of TrySend: a blocking send, which waits for a receiver.
TrySend_Blocking(b, event) ==
  /\ WaitingOn = b
  /\ IF callPc.at = "first"
       THEN NextReturns("Ok", b, event, "Ok", "NotCalled")
       ELSE NextReturns("Ok", b, event, callPc.first, "Ok")
  /\ UNCHANGED <<prev_timeout, peerPc, peerRet>>

\* Mutant of TrySend: the event is handed to every thread inside next() of
\* the backend, whether it holds the Receiver or waits for its Mutex.
TrySend_Broadcast(b, event) ==
  IF At(callPc) = b /\ At(peerPc) = b
    THEN /\ ret' = [NoRet EXCEPT !.op = "next", !.kind = "Ok", !.src = b, !.event = event,
                                 !.first = IF callPc.at = "first" THEN "Ok" ELSE callPc.first,
                                 !.second = IF callPc.at = "first" THEN "NotCalled" ELSE "Ok"]
         /\ callPc' = Idle
         /\ prev_idle' = None
         /\ quiet' = FALSE
         /\ peerRet' = [kind |-> "Ok", src |-> b, event |-> event]
         /\ peerPc' = Idle
         /\ recv' = [x \in Backends |-> None]
         /\ UNCHANGED prev_timeout
  ELSE IF WaitingOn = b
    THEN /\ IF callPc.at = "first"
              THEN NextReturns("Ok", b, event, "Ok", "NotCalled")
              ELSE NextReturns("Ok", b, event, callPc.first, "Ok")
         /\ UNCHANGED <<prev_timeout, peerPc, peerRet>>
  ELSE IF PeerWaitingOn = b
    THEN /\ PeerReturns("Ok", b, event)
         /\ UNCHANGED <<callPc, ret, prev_idle, prev_timeout, quiet>>
  ELSE UNCHANGED callerVars

\* send.try_send(event) on the zero-capacity channel of backend b: a rendezvous.
\* The event is taken only by a receiver blocked in recv_timeout at that moment,
\* whose next() then returns it; otherwise the event is dropped.
TrySend(b, event) ==
  IF WaitingOn = b
    THEN /\ IF callPc.at = "first"
              THEN NextReturns("Ok", b, event, "Ok", "NotCalled")
              ELSE NextReturns("Ok", b, event, callPc.first, "Ok")
         /\ UNCHANGED <<prev_timeout, peerPc, peerRet>>
  ELSE IF PeerWaitingOn = b
    THEN /\ PeerReturns("Ok", b, event)
         /\ UNCHANGED <<callPc, ret, prev_idle, prev_timeout, quiet>>
  ELSE UNCHANGED callerVars

\* -------------------------------------------------- the MPRIS poller thread

\* Mutant of TaskFailed: the spawn loop breaks on Err as it does on Ok.
TaskFailed_Exits ==
  /\ is_running' = FALSE
  /\ sysPc' = "exited"
  /\ UNCHANGED <<metadata, callerVars>>

\* Mutant of TaskFailed: the Err arm also resets the Snapshot Store.
TaskFailed_ClearsStore ==
  /\ is_running' = FALSE
  /\ sysPc' = "backoff"
  /\ metadata' = [metadata EXCEPT !["System"] = DefaultMetadata]
  /\ UNCHANGED callerVars

\* background_task returned Err: the spawn loop clears is_running and sleeps.
TaskFailed ==
  /\ is_running' = FALSE
  /\ sysPc' = "backoff"
  /\ UNCHANGED <<metadata, callerVars>>

\* background_task is entered: PlayerFinder::new and find_active.
SysDiscover ==
  /\ sysPc = "discover"
  /\ IF player THEN sysPc' = "loop" /\ UNCHANGED <<is_running, metadata, callerVars>>
     ELSE TaskFailed
  /\ UNCHANGED <<listenerVars, cmp, mrg, wsEvent, last_played, cancel_token, player, wsPc>>

\* The spawn loop's sleep of 1000 ms after an Err, then continue.
SysBackoff ==
  /\ sysPc = "backoff"
  /\ sysPc' = "discover"
  /\ UNCHANGED <<listenerVars, cmp, mrg, wsEvent, last_played, cancel_token, is_running, metadata,
                 player, wsPc, callerVars>>

\* Top of the loop of background_task: the cancel check, the store to is_running
\* and the test of player.is_running().
SysLoopTop ==
  /\ sysPc = "loop"
  /\ IF cancel_token["System"] THEN sysPc' = "exited" /\ UNCHANGED is_running
     ELSE /\ is_running' = player
          /\ sysPc' = IF player THEN "read" ELSE "refind"
  /\ UNCHANGED <<listenerVars, cmp, mrg, wsEvent, last_played, cancel_token, metadata, player, wsPc,
                 callerVars>>

\* The held player is gone: finder.find_active() again.
SysRefind ==
  /\ sysPc = "refind"
  /\ IF player THEN sysPc' = "recheck" /\ UNCHANGED <<is_running, metadata, callerVars>>
     ELSE TaskFailed
  /\ UNCHANGED <<listenerVars, cmp, mrg, wsEvent, last_played, cancel_token, player, wsPc>>

\* The test of player.is_running() on the player just found; if it is gone
\* already, sleep 1000 ms and continue.
SysRecheck ==
  /\ sysPc = "recheck"
  /\ sysPc' = IF player THEN "read" ELSE "inner_sleep"
  /\ UNCHANGED <<listenerVars, cmp, mrg, wsEvent, last_played, cancel_token, is_running, metadata,
                 player, wsPc, callerVars>>

SysInnerSleep ==
  /\ sysPc = "inner_sleep"
  /\ sysPc' = "loop"
  /\ UNCHANGED <<listenerVars, cmp, mrg, wsEvent, last_played, cancel_token, is_running, metadata,
                 player, wsPc, callerVars>>

\* Mutant of SysReadOf: the Snapshot Store is overwritten only when an event
\* was handed to a caller.
SysReadOf_StoreIfDelivered(new_metadata) ==
  LET event == DiffEvent(metadata["System"], new_metadata) IN
  /\ metadata' = IF event # NoEvent /\ WaitingOn = "System"
                   THEN [metadata EXCEPT !["System"] = new_metadata] ELSE metadata
  /\ IF event # NoEvent THEN TrySend("System", event)
     ELSE /\ quiet' = (quiet \/ WaitingOn = "System")
          /\ UNCHANGED <<callPc, ret, prev_idle, prev_timeout, peerVars>>
  /\ sysPc' = "loop"
  /\ UNCHANGED is_running

\* The rest of an iteration once the player was read as new_metadata: the Event
\* Differ, the overwrite of the Snapshot Store, the try_send and the
\* sleep(wait) that ends the iteration.
SysReadOf(new_metadata) ==
  LET event == DiffEvent(metadata["System"], new_metadata) IN
  /\ metadata' = [metadata EXCEPT !["System"] = new_metadata]
  /\ IF event # NoEvent THEN TrySend("System", event)
     ELSE /\ quiet' = (quiet \/ WaitingOn = "System")
          /\ UNCHANGED <<callPc, ret, prev_idle, prev_timeout, peerVars>>
  /\ sysPc' = "loop"
  /\ UNCHANGED is_running

\* get_metadata, get_position and get_playback_status, then the iteration on
\* what was read, which begins with metadata.write(): the poller waits there
\* while a read guard of its store is held. A call on a player that is gone
\* fails (DBusError) and background_task returns Err.
SysRead ==
  /\ sysPc = "read"
  /\ IF ~player THEN TaskFailed
     ELSE /\ guard # "System"
          /\ \E new_metadata \in PlatformReads : SysReadOf(new_metadata)
  /\ UNCHANGED <<listenerVars, cmp, mrg, wsEvent, last_played, cancel_token, player, wsPc>>

\* Environment: the media player quits, or one starts.
PlayerQuits ==
  /\ player
  /\ player' = FALSE
  /\ UNCHANGED <<listenerVars, cmp, mrg, wsEvent, last_played, cancel_token, is_running, metadata,
                 sysPc, wsPc, callerVars>>

PlayerStarts ==
  /\ ~player
  /\ player' = TRUE
  /\ UNCHANGED <<listenerVars, cmp, mrg, wsEvent, last_played, cancel_token, is_running, metadata,
                 sysPc, wsPc, callerVars>>

\* ------------------------------------------------- the push server thread

\* One iteration of the loop of spawn_background_task: the cancel check, then
\* bind_from. A failed bind sleeps 1000 ms and the loop starts over.
WsLoopTop ==
  /\ wsPc = "top"
  /\ IF cancel_token["Websocket"] THEN wsPc' = "exited"
     ELSE \E bound \in BOOLEAN : wsPc' = IF bound THEN "accept" ELSE "top"
  /\ UNCHANGED <<listenerVars, cmp, mrg, wsEvent, last_played, cancel_token, is_running, metadata,
                 player, sysPc, callerVars>>

\* Mutant of WsAccept: a failed accept or handshake ends the server thread.
WsAccept_ExitOnFailure ==
  /\ wsPc = "accept"
  /\ \E connected \in BOOLEAN :
       wsPc' = IF ~connected THEN "exited"
               ELSE IF cancel_token["Websocket"] THEN "top" ELSE "session"
  /\ UNCHANGED <<listenerVars, cmp, mrg, wsEvent, last_played, cancel_token, is_running, metadata,
                 player, sysPc, callerVars>>

\* background_task: source.get_connection(). A failed accept or handshake ends
\* the task (back to the spawn loop); a connection is closed at once if the
\* cancel flag is set.
WsAccept ==
  /\ wsPc = "accept"
  /\ \E connected \in BOOLEAN :
       wsPc' = IF ~connected \/ cancel_token["Websocket"] THEN "top" ELSE "session"
  /\ UNCHANGED <<listenerVars, cmp, mrg, wsEvent, last_played, cancel_token, is_running, metadata,
                 player, sysPc, callerVars>>

\* background_task: connection.next() yields a frame of the given kind. Only
\* Some(Ok(event)) keeps the inner loop going; anything else ends the session
\* and the server accepts again.
WsFrameOf(kind) ==
  /\ wsPc = "session"
  /\ IF kind # "event" THEN wsPc' = "accept" /\ UNCHANGED <<metadata, callerVars>>
     ELSE IF cancel_token["Websocket"]
       THEN wsPc' = "top" /\ UNCHANGED <<metadata, callerVars>>
     ELSE \E event \in ClientEvents :
            /\ guard # "Websocket"
            /\ TrySend("Websocket", event)
            /\ metadata' = [metadata EXCEPT
                              !["Websocket"] = ApplyEvent(metadata["Websocket"], event)]
            /\ wsPc' = "session"
  /\ UNCHANGED <<listenerVars, cmp, mrg, wsEvent, last_played, cancel_token, is_running, player, sysPc>>

WsFrame == \E kind \in FrameKinds : WsFrameOf(kind)

\* The body of the inner loop statement by statement. First the cancel check
\* and send.try_send(event.clone()): the event is handed to a blocked receiver
\* or dropped, and the store is not yet touched.
WsPublish ==
  /\ wsPc = "session"
  /\ IF cancel_token["Websocket"]
       THEN wsPc' = "top" /\ UNCHANGED <<wsEvent, callerVars>>
       ELSE \E event \in ClientEvents :
              /\ TrySend("Websocket", event)
              /\ wsEvent' = event
              /\ wsPc' = "store"
  /\ UNCHANGED <<listenerVars, cmp, mrg, last_played, cancel_token, is_running,
                 metadata, player, sysPc>>

\* Then the match on the event: metadata.write() and the assignment.
WsStore ==
  /\ wsPc = "store"
  /\ guard # "Websocket"
  /\ metadata' = [metadata EXCEPT
                    !["Websocket"] = ApplyEvent(metadata["Websocket"], wsEvent)]
  /\ wsEvent' = NoEvent
  /\ wsPc' = "session"
  /\ UNCHANGED <<listenerVars, cmp, mrg, last_played, cancel_token, is_running,
                 player, sysPc, callerVars>>

\* A frame that ends the session.
WsHangup == \E kind \in FrameKinds \ {"event"} : WsFrameOf(kind)

\* ----------------------------------------------------------- specification

\* The two producer threads while a player stays on the bus.
Producers ==
  \/ SysDiscover \/ SysBackoff \/ SysLoopTop \/ SysRead
  \/ WsLoopTop \/ WsAccept \/ WsFrame

\* The whole system.
Next ==
  \/ Create \/ Drop \/ Poll \/ PollGuarded
  \/ NextBegin \/ NextTimeout
  \/ SysDiscover \/ SysBackoff \/ SysLoopTop \/ SysRefind \/ SysRecheck
  \/ SysInnerSleep \/ SysRead \/ PlayerQuits \/ PlayerStarts
  \/ WsLoopTop \/ WsAccept \/ WsFrame

Spec == Init /\ [][Next]_vars

\* The aggregator's poll() and poll_guarded() over both running producers.
NextPoll == Create \/ Poll \/ PollGuarded \/ Producers

SpecPoll == Init /\ [][NextPoll]_vars

\* The aggregator's next() over both running producers, with cancellation.
NextNext == Create \/ Drop \/ NextBegin \/ NextTimeout \/ Producers

SpecNext == Init /\ [][NextNext]_vars

\* Every call on the listener, with cancellation, while no push client connects:
\* the push server binds and waits in accept.
NextCalls ==
  \/ Create \/ Drop \/ Poll \/ PollGuarded \/ NextBegin \/ NextTimeout
  \/ SysDiscover \/ SysBackoff \/ SysLoopTop \/ SysRead \/ WsLoopTop

SpecCalls == Init /\ [][NextCalls]_vars

\* The push server and the calling thread, the MPRIS poller not yet scheduled.
NextPush ==
  Create \/ Poll \/ NextBegin \/ NextTimeout \/ WsLoopTop \/ WsAccept \/ WsFrame

SpecPush == Init /\ [][NextPush]_vars

\* The push server thread alone, kept running by the scheduler. A failed bind
\* leaves the thread at the top of its loop, so the fairness of WsLoopTop also
\* says that the address can be bound again in the end; whether a client
\* connects or sends another frame is left to the environment.
NextServer == Create \/ WsLoopTop \/ WsAccept \/ WsFrame

SpecServer == Init /\ [][NextServer]_vars /\ WF_vars(WsLoopTop)

\* A step of the MPRIS poller thread.
SysStep ==
  \/ SysDiscover \/ SysBackoff \/ SysLoopTop \/ SysRefind \/ SysRecheck
  \/ SysInnerSleep \/ SysRead

\* The MPRIS poller thread, kept running by the scheduler, with players that
\* come and go and the drop of the handle.
NextPoller ==
  \/ Create \/ Drop \/ PlayerQuits \/ PlayerStarts
  \/ SysDiscover \/ SysBackoff \/ SysLoopTop \/ SysRefind \/ SysRecheck
  \/ SysInnerSleep \/ SysRead

SpecPoller == Init /\ [][NextPoller]_vars /\ WF_vars(SysStep)

\* MediaMetadata::is_different on every pair of ComparedMetadata.
NextDiffer == Compare

SpecDiffer == InitDiffer /\ [][NextDiffer]_vars

\* The push server and the drop of the listener that owns it. The server's
\* own step (the cancel check and the bind) is always scheduled; accepting and
\* reading wait for a client.
NextShutdown == Create \/ Drop \/ WsLoopTop \/ WsAccept \/ WsFrame

SpecShutdown == Init /\ [][NextShutdown]_vars /\ WF_vars(WsLoopTop)

\* The MPRIS backend alone with players that come and go, and every call on
\* the listener.
NextChurn ==
  \/ Create \/ Drop \/ Poll \/ NextBegin \/ NextTimeout \/ PlayerQuits \/ PlayerStarts
  \/ SysDiscover \/ SysBackoff \/ SysLoopTop \/ SysRefind \/ SysRecheck
  \/ SysInnerSleep \/ SysRead

SpecChurn == Init /\ [][NextChurn]_vars

\* Two threads that call next() on one listener, and the MPRIS poller; no push
\* client connects.
NextCallers ==
  \/ Create \/ NextBegin \/ NextTimeout \/ CallerLocks
  \/ PeerBegin \/ PeerTimeout \/ PeerLocks
  \/ SysDiscover \/ SysBackoff \/ SysLoopTop \/ SysRead

SpecCallers == Init /\ [][NextCallers]_vars

\* A caller in next() against both producers, the push server taken statement
\* by statement.
NextHandoff ==
  \/ Create \/ NextBegin \/ NextTimeout
  \/ SysDiscover \/ SysBackoff \/ SysLoopTop \/ SysRead
  \/ WsLoopTop \/ WsAccept \/ WsHangup \/ WsPublish \/ WsStore

SpecHandoff == Init /\ [][NextHandoff]_vars

\* The MPRIS poller of a listener created with any update_rate of Rates.
NextSleep ==
  \/ CreateRated \/ PlayerQuits \/ PlayerStarts
  \/ SysDiscover \/ SysBackoff \/ SysLoopTop \/ SysRefind \/ SysRecheck
  \/ SysInnerSleep \/ SysRead

SpecSleep == Init /\ [][NextSleep]_vars

\* The listener from its creation for as long as no poll reads a Playing
\* snapshot: the producers run freely, the caller polls only at moments when
\* no snapshot it would read is Playing.
NextFresh == Create \/ PollIdle \/ PollGuardedIdle \/ Producers

SpecFresh == Init /\ [][NextFresh]_vars

\* Both producers and a caller that may call next() and then waits without
\* limit.
NextPublish == Create \/ NextBegin \/ Producers

SpecPublish == Init /\ [][NextPublish]_vars

\* A caller that keeps the guard poll_guarded returns, and both producers.
NextGuard == Create \/ Poll \/ PollGuardedKept \/ DropGuard \/ Producers

SpecGuard == Init /\ [][NextGuard]_vars

\* MediaMetadata::merge on every pair of masked values.
NextMerge == Merge

SpecMerge == InitMerge /\ [][NextMerge]_vars

\* ------------------------------------------------------------ properties

\* poll() / poll_guarded() gets past both backends' is_closed checks and
\* reads two snapshots.
ReadsBoth == system /\ websocket /\ ~is_closed("System") /\ ~is_closed("Websocket")

\* Of the two snapshots in the stores, exactly the one of b is Playing.
OnlyPlaying(b) ==
  metadata[b].state = "Playing" /\ metadata[Other(b)].state # "Playing"

NeitherPlaying == \A b \in Backends : metadata[b].state # "Playing"

BothPlaying == \A b \in Backends : metadata[b].state = "Playing"

\* C1: whenever poll() reads two snapshots of which exactly one is Playing, it
\* returns that backend's snapshot and sets last_played to that backend, for
\* either priority.
C1_OnlyPlayingWins ==
  [][ \A b \in Backends :
        (ReadsBoth /\ OnlyPlaying(b) /\ Poll)
          => /\ ret'.kind = "Ok"
             /\ ret'.src = b
             /\ ret'.meta = metadata[b]
             /\ last_played' = b ]_vars

\* C1 witness: priority System, system Paused, websocket Playing 'Y': poll()
\* returned the websocket's 'Y' and last_played is Websocket.
C1_Witness ==
  /\ ret.op = "poll" /\ ret.kind = "Ok"
  /\ cfg.priority = "System"
  /\ ret.states = <<"Paused", "Playing">>
  /\ ret.src = "Websocket" /\ ret.meta.title = "Y"
  /\ last_played = "Websocket"

\* C2: a poll() that reads no Playing snapshot returns the snapshot of the
\* backend recorded in last_played and leaves last_played alone; when the
\* preceding call was such a poll() too, both returned the same backend.
C2_IdleKeepsLastPlayed ==
  [][ (ReadsBoth /\ NeitherPlaying /\ Poll)
        => /\ ret'.kind = "Ok"
           /\ ret'.src = last_played
           /\ ret'.meta = metadata[last_played]
           /\ last_played' = last_played
           /\ (ret.op = "poll" /\ IdleRet(ret)) => ret'.src = ret.src ]_vars

\* C2 witness: two consecutive idle polls that returned the backend that is
\* not the priority one, the sources being in different idle states.
C2_Witness ==
  /\ ret.op = "poll" /\ IdleRet(ret)
  /\ prev_idle = ret.src
  /\ ret.src # cfg.priority
  /\ ret.states[1] # ret.states[2]
  /\ last_played = ret.src

\* C3: whenever poll() reads two Playing snapshots, it returns the snapshot of
\* the priority backend and sets last_played to it.
C3_BothPlayingPriorityWins ==
  [][ (ReadsBoth /\ BothPlaying /\ Poll)
        => /\ ret'.kind = "Ok"
           /\ ret'.src = cfg.priority
           /\ ret'.meta = metadata[cfg.priority]
           /\ last_played' = cfg.priority ]_vars

\* C3 witness: priority Websocket, both Playing, the websocket's snapshot returned.
C3_Witness ==
  /\ ret.op = "poll" /\ ret.kind = "Ok"
  /\ ret.states = <<"Playing", "Playing">>
  /\ cfg.priority = "Websocket"
  /\ ret.src = "Websocket"
  /\ last_played = "Websocket"

\* C4: poll_guarded() selects the backend poll() selects and leaves last_played
\* with the value poll() would leave, for every priority and pair of states.
C4_PollGuardedAsPoll ==
  [][ PollGuarded
        => LET p == PollOutcome("poll") IN
           /\ ret'.kind = p.ret.kind
           /\ ret'.src = p.ret.src
           /\ ret'.meta = p.ret.meta
           /\ last_played' = p.lp ]_vars

\* C5: with hybrid = false and both backends present, poll() returns the
\* prioritized backend's snapshot whatever the two playback states are.
C5_NotHybridReturnsPriority ==
  [][ (Poll /\ ReadsBoth /\ ~cfg.hybrid)
        => /\ ret'.kind = "Ok"
           /\ ret'.src = cfg.priority
           /\ ret'.meta = metadata[cfg.priority] ]_vars

\* C6: a configuration with exactly one backend enabled creates a listener that
\* holds exactly that backend (the platform being reachable).
C6_EachBackendEnableable ==
  (/\ create.status # "NotCalled"
   /\ create.sys_init = "Ok"
   /\ cfg.system_enabled # cfg.websocket_enabled)
    => /\ create.status = "Ok"
       /\ system = cfg.system_enabled
       /\ websocket = cfg.websocket_enabled

\* C7: create with neither backend enabled fails with NotEnabled, creates no
\* backend and starts no background task.
C7_NotEnabled ==
  (create.status # "NotCalled" /\ ~cfg.system_enabled /\ ~cfg.websocket_enabled)
    => /\ create.status = "NotEnabled"
       /\ create.attempted = {}
       /\ ~system /\ ~websocket
       /\ sysPc = "unspawned" /\ wsPc = "unspawned"

\* C7 witness: create was called with neither backend enabled and failed.
C7_Witness ==
  /\ create.status = "NotEnabled"
  /\ ~cfg.system_enabled /\ ~cfg.websocket_enabled
  /\ sysPc = "unspawned" /\ wsPc = "unspawned"

NextOutcomes == {"Ok", "Timeout", "Closed"}

\* C9: with both backends present next() asks the prioritized backend first;
\* its event is returned without consulting the other backend; when it fails
\* (Timeout, Closed) the result of the other backend's next() is returned, so
\* next() fails only if both fail.
C9_NextPriorityThenOther ==
  /\ (system /\ websocket /\ callPc.at = "first") => WaitingOn = cfg.priority
  /\ (system /\ websocket /\ callPc.at = "second")
       => WaitingOn = Other(cfg.priority) /\ callPc.first \in {"Timeout", "Closed"}
  /\ (system /\ websocket /\ ret.op = "next")
       => /\ ret.first \in NextOutcomes
          /\ ret.first = "Ok"
               => /\ ret.kind = "Ok" /\ ret.event # NoEvent
                  /\ ret.src = cfg.priority
                  /\ ret.second = "NotCalled"
          /\ ret.first # "Ok"
               => /\ ret.second \in NextOutcomes
                  /\ ret.kind = ret.second
                  /\ ret.src = Other(cfg.priority)
                  /\ (ret.kind = "Ok") = (ret.event # NoEvent)
          /\ ret.kind # "Ok" => (ret.first # "Ok" /\ ret.second # "Ok")

\* C9 witness: the prioritized websocket backend timed out and next() returned
\* the system backend's event.
C9_Witness ==
  /\ system /\ websocket
  /\ cfg.priority = "Websocket"
  /\ ret.op = "next" /\ ret.kind = "Ok"
  /\ ret.first = "Timeout" /\ ret.second = "Ok"
  /\ ret.src = "System" /\ ret.event.type = "MediaChanged"

\* The listener holds backend b.
Held(b) == IF b = "System" THEN system ELSE websocket

\* This step calls next() of the second backend of NextOrder: the first one's
\* next() has just failed (Closed at the call, or Timeout).
CallsSecond ==
  /\ Len(NextOrder) = 2
  /\ \/ NextBegin /\ is_closed(NextOrder[1])
     \/ NextTimeout /\ callPc.at = "first"

\* C10: once a backend's cancel flag is set it stays set (is_closed() is true
\* in every later state), and every poll(), poll_guarded() and next() called on
\* that backend from then on fails with Closed, returning neither snapshot data
\* nor an event.
C10_ClosedStaysClosed ==
  [][ \A b \in Backends :
        cancel_token[b]
          => /\ cancel_token'[b]
             /\ ((Poll \/ PollGuarded) /\ Held(b))
                  => (ret'.kind = "Closed" /\ ret'.meta = DefaultMetadata)
             /\ (WaitingOn # b) => (WaitingOn' # b)
             /\ (NextBegin /\ NextOrder # <<>> /\ NextOrder[1] = b)
                  => IF callPc'.at = "second" THEN callPc'.first = "Closed"
                     ELSE ret'.first = "Closed" /\ ret'.kind = "Closed"
                          /\ ret'.event = NoEvent
             /\ (CallsSecond /\ NextOrder[2] = b)
                  => /\ callPc'.at = "idle"
                     /\ ret'.second = "Closed" /\ ret'.kind = "Closed"
                     /\ ret'.event = NoEvent ]_vars

\* C10 witness: after the system backend's cancellation, next() with priority
\* Websocket fell through to it and failed with Closed.
C10_Witness ==
  /\ cancel_token["System"]
  /\ system /\ websocket
  /\ cfg.priority = "Websocket"
  /\ ret.op = "next" /\ ret.kind = "Closed"
  /\ ret.first = "Timeout" /\ ret.second = "Closed"

\* C11: a next() of a backend that gives up waiting fails with Timeout and
\* changes nothing of the backend: the cancel flags, the Snapshot Stores,
\* is_running and both producer threads are as before; the poll() that follows
\* a timed-out next() succeeds, and the next() that follows it blocks again on
\* the backend that timed out.
C11_TimeoutKeepsBackend ==
  [][ /\ NextTimeout
          => /\ UNCHANGED <<cancel_token, metadata, is_running, sysPc, wsPc, player>>
             /\ IF callPc.at = "first"
                  THEN IF callPc'.at = "second" THEN callPc'.first = "Timeout"
                       ELSE ret'.first = "Timeout" /\ ret'.event = NoEvent
                  ELSE /\ ret'.second = "Timeout" /\ ret'.kind = "Timeout"
                       /\ ret'.event = NoEvent
      /\ (Poll /\ PrecedingTimeout /\ ReadsBoth)
          => ret'.kind = "Ok" /\ ret'.meta = metadata[ret'.src]
      /\ (NextBegin /\ PrecedingTimeout /\ ReadsBoth)
          => callPc'.at = "first" /\ WaitingOn' = cfg.priority ]_vars

\* C11 witness: a next() timed out on both backends, neither is closed, and
\* the next() after it received an event from the system backend, which is the
\* prioritized one and so had timed out in the call before.
C11_Witness ==
  /\ prev_timeout
  /\ ~is_closed("System") /\ ~is_closed("Websocket")
  /\ cfg.priority = "System"
  /\ ret.op = "next" /\ ret.kind = "Ok"
  /\ ret.first = "Ok" /\ ret.src = "System"
  /\ ret.event.type = "StateChanged"

\* This step is an Active iteration of the poller that read the player.
ActiveRead == SysRead /\ sysPc = "read" /\ player

\* The Duration (in ms) the poller of this listener sleeps at the end of an
\* Active iteration: computed from update_rate when background_task starts.
wait == wait_ms(cfg.update_rate)

\* This step hands event e of the system backend to the blocked caller, whose
\* next() returns it.
Delivered(e) ==
  /\ callPc'.at = "idle"
  /\ ret'.op = "next" /\ ret'.kind = "Ok" /\ ret'.src = "System"
  /\ ret'.event = e

\* C12: an Active iteration of the poller publishes at most one event, chosen
\* from the previous and the new snapshot in this order: MediaChanged(new) if
\* previous.is_different(new); else StateChanged(new.state) if the states
\* differ; else ProgressChanged(new.elapsed) if the new state is Playing; else
\* nothing. (Observed by a caller blocked in next() of the system backend.)
C12_DifferPriorityOrder ==
  [][ (ActiveRead /\ WaitingOn = "System")
        => LET previous == metadata["System"]
               new      == metadata'["System"]
               media    == is_different(previous, new)
               state    == previous.state # new.state
           IN /\ media => Delivered(MediaChanged(new))
              /\ (~media /\ state) => Delivered(StateChanged(new.state))
              /\ (~media /\ ~state /\ new.state = "Playing")
                   => Delivered(ProgressChanged(new.elapsed))
              /\ (~media /\ ~state /\ new.state # "Playing")
                   => WaitingOn' = "System" /\ ret' = ret ]_vars

\* C12 witness: next() returned StateChanged(Playing) from the system backend:
\* the state arm was taken although the new state is Playing.
C12_Witness ==
  /\ ret.op = "next" /\ ret.kind = "Ok" /\ ret.src = "System"
  /\ ret.event = StateChanged("Playing")
  /\ metadata["System"].state = "Playing"

\* C13 as stated: an Active iteration whose new snapshot is not different from
\* the previous one and has the same state publishes no event.
C13_NoEventWhenUnchanged ==
  [][ (/\ ActiveRead /\ WaitingOn = "System"
       /\ ~is_different(metadata["System"], metadata'["System"])
       /\ metadata["System"].state = metadata'["System"].state)
        => WaitingOn' = "System" /\ ret' = ret ]_vars

\* C13 amended: an Active iteration whose new snapshot is not different from
\* the previous one, has the same state, and is not Playing publishes no
\* event; when it is Playing, ProgressChanged(elapsed) is published, also when
\* elapsed is what it was.
C13_NoEventWhenUnchangedIdle ==
  [][ (/\ ActiveRead /\ WaitingOn = "System"
       /\ ~is_different(metadata["System"], metadata'["System"])
       /\ metadata["System"].state = metadata'["System"].state)
        => IF metadata'["System"].state # "Playing"
             THEN WaitingOn' = "System" /\ ret' = ret /\ quiet'
             ELSE Delivered(ProgressChanged(metadata'["System"].elapsed)) ]_vars

\* C13 witness: the caller is still blocked in next() of the system backend
\* after the poller finished an iteration that published nothing; the store
\* holds a paused track.
C13_Witness ==
  /\ quiet
  /\ WaitingOn = "System"
  /\ metadata["System"].state = "Paused"
  /\ metadata["System"].title = "X"

C15_MalformedKeepsSession ==
  [][ (WsFrameOf("malformed") /\ ~cancel_token["Websocket"])
        => wsPc' = "session" /\ metadata' = metadata ]_vars

Active == sysPc \in {"loop", "read"} /\ is_running

\* C17: when the player goes away while the poller is Active and, without
\* cancellation, a player is on the bus again and stays, the thread spawned by
\* create (it has not exited, no other is spawned) is Active again and again,
\* and each of its reads overwrites the Snapshot Store with what the player
\* reports.
C17_PollerRecovers ==
  /\ [](sysPc = "exited" => cancel_token["System"])
  /\ [][sysPc # "unspawned" => sysPc' # "unspawned"]_vars
  /\ [][ActiveRead => (metadata'["System"] \in PlatformReads /\ sysPc' = "loop")]_vars
  /\ <>[](player /\ ~cancel_token["System"] /\ sysPc # "unspawned")
       => []<>(Active /\ sysPc = "read")

\* C17 witness: the store was written while the poller was Active, the player
\* went away (is_running was cleared), and the same thread has a player again
\* and is back in its polling loop.
C17_Witness ==
  /\ sysPc = "loop"
  /\ player
  /\ ~is_running
  /\ ~cancel_token["System"]
  /\ metadata["System"].title = "X"

\* C18: is_running() is true only while the poller holds an active session:
\* it is false while the poller is Searching or backing off, and false once
\* the poller thread has exited after cancellation.
C18_RunningOnlyWhileActive ==
  /\ is_running => sysPc \in {"loop", "read"}
  /\ Searching => ~is_running
  /\ sysPc = "exited" => ~is_running

\* Field f is present on both sides and differs.
BothDiffer(f) == cmp.a[f] # None /\ cmp.b[f] # None /\ cmp.a[f] # cmp.b[f]

\* C19: a.is_different(b) is true exactly when both have a uid and the uids
\* differ, or both have a uri and the uris differ, or title and artists both
\* differ; a uid or uri present on one side only decides nothing, so the result
\* is the same for (a, b) and (b, a).
C19_DifferentIffBothSides ==
  cmp.done
    => /\ cmp.ab = \/ BothDiffer("uid")
                   \/ BothDiffer("uri")
                   \/ (cmp.a.title # cmp.b.title /\ cmp.a.artists # cmp.b.artists)
       /\ cmp.ab = cmp.ba

\* C20: when both sides have a uid and the uids differ, is_different is true
\* whatever the titles and artists are; when uid and uri are present and equal
\* on both sides and title and artists are identical, is_different is false.
C20_UidUriAuthoritative ==
  cmp.done
    => /\ BothDiffer("uid") => (cmp.ab /\ cmp.ba)
       /\ (/\ cmp.a.uid # None /\ cmp.a.uid = cmp.b.uid
           /\ cmp.a.uri # None /\ cmp.a.uri = cmp.b.uri
           /\ cmp.a.title = cmp.b.title /\ cmp.a.artists = cmp.b.artists)
            => (~cmp.ab /\ ~cmp.ba)

\* C20 witness: two values with different uids and the same uri, title and
\* artists were compared and found different.
C20_Witness ==
  /\ cmp.done
  /\ cmp.a.uid = "/track/x" /\ cmp.b.uid = "/track/y"
  /\ cmp.a.uri = "file:x" /\ cmp.b.uri = "file:x"
  /\ cmp.a.title = cmp.b.title /\ cmp.a.artists = cmp.b.artists
  /\ cmp.ab /\ cmp.ba

\* C21: merge(primary, fallback) keeps every field of primary that is not
\* None, empty or zero, takes the fallback's field exactly where primary's is
\* None, empty or zero, and takes state from primary whatever the fallback's is.
C21_MergeKeepsPrimary ==
  mrg.done
    => /\ \A f \in MergeFields :
            mrg.merged[f] = IF mrg.primary[f] = DefaultMetadata[f]
                              THEN mrg.fallback[f] ELSE mrg.primary[f]
       /\ mrg.merged.state = mrg.primary.state

\* C21 witness: primary has only elapsed set, the fallback has everything but
\* elapsed, the states differ: the merge has primary's elapsed and state and
\* the fallback's uid, title and duration.
C21_Witness ==
  /\ mrg.done
  /\ mrg.primary.elapsed = 10 /\ mrg.primary.duration = 0 /\ mrg.primary.uid = None
  /\ mrg.fallback.elapsed = 0 /\ mrg.fallback.duration = 200
  /\ mrg.primary.state = "Stopped" /\ mrg.fallback.state = "Playing"
  /\ mrg.merged.elapsed = 10 /\ mrg.merged.state = "Stopped"
  /\ mrg.merged.uid = "f:uid" /\ mrg.merged.title = "F" /\ mrg.merged.duration = 200

\* C22: once cancellation of the MPRIS backend is requested, its poller
\* thread eventually exits, whatever state of the retry machine it is in
\* (active, backing off, or searching with no player on the bus).
C22_PollerExitsOnCancel == cancel_token["System"] ~> (sysPc = "exited")

ThreadPc(b) == IF b = "System" THEN sysPc ELSE wsPc

\* C24: whenever is_closed() of a backend is true its background thread has
\* exited, and no step taken while is_closed() is true writes that backend's
\* Snapshot Store or hands an event of that backend to a caller.
C24_ClosedMeansExited ==
  /\ [](\A b \in Backends : is_closed(b) => ThreadPc(b) = "exited")
  /\ [][ \A b \in Backends :
           is_closed(b) => /\ metadata'[b] = metadata[b]
                           /\ ~(ret'.kind = "Ok" /\ ret'.src = b /\ ret' # ret) ]_vars

\* C25: while the MPRIS poller holds no running player and cancellation has
\* not been requested, nothing of it is surfaced: no step changes the System
\* Snapshot Store, no step of the poller stores the cancel flag or hands an
\* event to a caller, and a poll() answered from the System backend returns Ok
\* with the store as the last Active iteration left it.
C25_SearchingIsSilent ==
  [][ (Retrying /\ ~cancel_token["System"])
        => /\ metadata'["System"] = metadata["System"]
           /\ SysStep => /\ cancel_token' = cancel_token
                          /\ UNCHANGED <<callPc, ret>>
           /\ ~(ret'.op = "next" /\ ret'.kind = "Ok" /\ ret'.src = "System" /\ ret' # ret)
           /\ (Poll /\ system)
                => /\ ret'.kind # "Closed"
                   /\ ret'.src = "System"
                        => ret'.kind = "Ok" /\ ret'.meta = metadata["System"] ]_vars

\* C25 witness: the player went away after the poller had stored track X, the
\* poller is backing off and a poll() made meanwhile returned track X.
C25_Witness ==
  /\ sysPc = "backoff" /\ ~player /\ ~is_running /\ ~cancel_token["System"]
  /\ ret.op = "poll" /\ ret.kind = "Ok" /\ ret.src = "System" /\ ret.searching
  /\ ret.meta.title = "X" /\ ret.meta.state = "Playing"
  /\ metadata["System"] = ret.meta

C27_PublishNeverBlocks ==
  /\ [](\A n \in PlatformReads :
          (sysPc = "read" /\ player) => ENABLED (SysRead /\ SysReadOf(n)))
  /\ []((wsPc = "session" /\ ~cancel_token["Websocket"]) => ENABLED WsFrameOf("event"))
  /\ [][ /\ (WaitingOn # "System" /\ ActiveRead)
                => /\ UNCHANGED <<callPc, ret>>
                   /\ metadata'["System"] \in PlatformReads
                   /\ sysPc' = "loop"
         /\ (WaitingOn # "Websocket" /\ ~cancel_token["Websocket"] /\ WsFrameOf("event"))
                => /\ UNCHANGED <<callPc, ret>>
                   /\ \E e \in ClientEvents :
                        metadata'["Websocket"] = ApplyEvent(metadata["Websocket"], e)
                   /\ wsPc' = "session" ]_vars

\* C27 witness: no caller ever called next(), yet both producers published,
\* updated their stores and are at their next step.
C27_Witness ==
  /\ ret = NoRet /\ callPc = Idle
  /\ metadata["System"].title = "X" /\ metadata["System"].state = "Playing"
  /\ metadata["Websocket"] # DefaultMetadata
  /\ sysPc = "loop" /\ wsPc = "session"

\* C28: the channel of a backend keeps the latest undelivered event. When the
\* poller has published while no call was ever made on the listener (the store
\* is no longer the default, so at least MediaChanged was published and
\* dropped), a next() that consults the system backend first returns an event
\* of the system backend at once, without waiting for a further publish.
C28_LatestEventRetained ==
  [][ (/\ NextBegin /\ ret = NoRet
       /\ NextOrder # <<>> /\ NextOrder[1] = "System" /\ ~is_closed("System")
       /\ metadata["System"] # DefaultMetadata)
        => /\ callPc'.at = "idle"
           /\ ret'.kind = "Ok" /\ ret'.src = "System" /\ ret'.event # NoEvent ]_vars

\* The calling thread's next() returns an event of backend b in this step.
CallerGot(b) ==
  callPc.at # "idle" /\ callPc'.at = "idle" /\ ret'.kind = "Ok" /\ ret'.src = b

\* The second thread's next() returns an event of backend b in this step.
PeerGot(b) ==
  peerPc.at # "idle" /\ peerPc'.at = "idle" /\ peerRet'.kind = "Ok" /\ peerRet'.src = b

\* This step is one in which backend b produces event e: the iteration of the
\* poller whose differ yields e, the frame of the push session that carries e.
Produces(b, e) ==
  /\ e # NoEvent
  /\ IF b = "System"
       THEN ActiveRead /\ e = DiffEvent(metadata["System"], metadata'["System"])
       ELSE /\ WsFrameOf("event") /\ ~cancel_token["Websocket"] /\ e \in ClientEvents
            /\ metadata'["Websocket"] = ApplyEvent(metadata["Websocket"], e)

\* C29: the events next() returns for a backend, to whichever of two calling
\* threads, are events that backend produced, each returned in the step that
\* produced it and to one thread only: what the callers see is a subsequence
\* of what was produced, in order and without duplicates. Only the thread that
\* holds the Receiver is handed an event, and only one thread holds it.
C29_EventsInOrderOnce ==
  [][ \A b \in Backends :
        /\ CallerGot(b) => WaitingOn = b /\ Produces(b, ret'.event)
        /\ PeerGot(b) => PeerWaitingOn = b /\ Produces(b, peerRet'.event)
        /\ ~(CallerGot(b) /\ PeerGot(b))
        /\ ~(WaitingOn' = b /\ PeerWaitingOn' = b) ]_vars

\* C29 witness: the second thread was handed StateChanged while the first,
\* which had received the MediaChanged before it, was waiting for the Receiver
\* in its next call.
C29_Witness ==
  /\ peerRet.kind = "Ok" /\ peerRet.src = "System"
  /\ peerRet.event.type = "StateChanged"
  /\ At(callPc) = "System" /\ recv["System"] = None
  /\ peerPc = Idle

\* C30: no call on the listener keeps a producer from its next write to the
\* Snapshot Store: whenever the poller is about to read the player its
\* iteration can be taken, and whenever the push server is in a session it can
\* take the next frame, also while the caller keeps the guard poll_guarded
\* returned.
C30_AggregatorNeverBlocks ==
  /\ sysPc = "read" => ENABLED SysRead
  /\ wsPc = "session" => ENABLED WsFrameOf("event")

\* C31: from the creation of a listener with both backends, as long as no poll
\* has read a Playing snapshot, every poll() that reads two snapshots of which
\* none is Playing returns the snapshot of the configured priority backend,
\* and last_played is that backend.
C31_FreshIdleReturnsPriority ==
  /\ [][ (ReadsBoth /\ NeitherPlaying /\ Poll)
            => /\ ret'.kind = "Ok"
               /\ ret'.src = cfg.priority
               /\ ret'.meta = metadata[cfg.priority] ]_vars
  /\ [](create.status = "Ok" => last_played = cfg.priority)

\* C31 witness: priority System; the poller stored a paused track X, the push
\* client a stopped one; poll() returned the system backend's X.
C31_Witness ==
  /\ ret.op = "poll" /\ ret.kind = "Ok"
  /\ cfg.priority = "System" /\ ret.src = "System"
  /\ ret.states = <<"Paused", "Stopped">>
  /\ ret.meta.title = "X"
  /\ metadata["Websocket"].title = "Y"

\* C32: for every update_rate the sleep that ends an Active iteration of the
\* poller is 1000 ms / update_rate (integer division, where the division is
\* defined) and never less than 1 ms.
C32_SleepAtLeastOneMs ==
  [][ (sysPc = "read" /\ player /\ ActiveRead)
        => /\ wait >= 1
           /\ cfg.update_rate # 0 => wait = 1000 \div cfg.update_rate ]_vars

\* Snapshot m holds what event e announces.
Reflects(m, e) ==
  IF e.type = "MediaChanged" THEN m = e.meta
  ELSE IF e.type = "StateChanged" THEN m.state = e.state
  ELSE m.elapsed = e.elapsed

\* C33: at the moment next() returns an event of a backend to the caller, that
\* backend's Snapshot Store already holds what the event announces, so that a
\* poll() the caller makes next (it clones that store) reads that snapshot or
\* a later one, never an older one. For both backends, under every
\* interleaving of the producers and the caller.
C33_StoreReflectsReturnedEvent ==
  [][ \A b \in Backends :
        (callPc.at # "idle" /\ CallerGot(b)) => Reflects(metadata'[b], ret'.event) ]_vars

\* C34: when the listener (with it each backend handle) is dropped, the cancel
\* flag of every background thread it started is set: the poller's and the
\* push server's.
C34_DropCancelsEveryTask ==
  [][ Drop => \A b \in Backends : ThreadPc(b) # "unspawned" => cancel_token'[b] ]_vars

====
